---- MODULE Spec2Model ----
(***************************************************************************)
(* Model of liveserver/test/testcases.py: the stoppable WSGI server, the   *)
(* thread that hosts it and the test-case class that starts and stops it.  *)
(*                                                                         *)
(* Two threads are modelled, each with a program counter: the controller   *)
(* (pcC: setUpClass, the tests, tearDownClass) and the server thread (pcS: *)
(* LiveServerThread.run and what it calls).  One action is one statement   *)
(* of the source, so that every interleaving of the two threads over the   *)
(* shared fields (is_ready, error, httpd, __serving, __is_shut_down, the   *)
(* socket) is explored.                                                    *)
(*                                                                         *)
(* Time is discrete.  One tick is the default poll_interval of             *)
(* serve_forever (0.5 s); the wait of shutdown() lasts ShutdownTicks ticks *)
(* (2 s).  Time passes only while every thread is blocked or busy with a   *)
(* request: in select, in process_request, in a wait, between setUpClass   *)
(* and tearDownClass; the other statements take no time.                   *)
(***************************************************************************)
EXTENDS Integers, Sequences, FiniteSets, TLC

\* ---------------------------------------------------------------- bounds
\* Longest DJANGO_LIVE_TEST_SERVER_ADDRESS value tried.
MaxAddrLen == 3
\* Longest time, in ticks, one process_request call may take.
MaxDispatchTicks == 5
\* Number of tearDownClass calls tried after setUpClass.
MaxTearDowns == 2
\* Number of handle_request() calls tried on one server.
MaxHandleRequests == 2
\* Number of set() and clear() calls tried on one event.
MaxFlagOps == 3

\* ------------------------------------------------------ program constants
\* serve_forever(poll_interval=0.5): one tick.
PollTicks == 1
\* self.__is_shut_down.wait(2): 2 s = 4 poll intervals.
ShutdownTicks == 4

\* Characters an address is made of: a host letter, the separator, a digit.
AddrChars == {"h", ":", "8"}
\* Aliases a caller may hand over in connections_override.
Aliases == {"default"}

RECURSIVE SeqsUpTo(_)
SeqsUpTo(n) ==
    IF n = 0 THEN {<< >>}
    ELSE LET shorter == SeqsUpTo(n - 1)
         IN  shorter \cup {Append(s, c) : s \in {t \in shorter : Len(t) = n - 1},
                                               c \in AddrChars}

\* ------------------------------------------------------- pure functions
\* str.split(':'): the parts between the separators, empty parts included.
RECURSIVE Split(_)
Split(s) ==
    IF \A i \in 1..Len(s) : s[i] # ":"
    THEN << s >>
    ELSE LET i == CHOOSE k \in 1..Len(s) :
                      s[k] = ":" /\ \A j \in 1..(k - 1) : s[j] # ":"
         IN  << SubSeq(s, 1, i - 1) >> \o Split(SubSeq(s, i + 1, Len(s)))

\* Mutant of UnpackOk: extra parts are ignored.
UnpackOkAtLeastTwo(parts) == Len(parts) >= 2

\* host, port = parts: succeeds only for exactly two parts.
UnpackOk(parts) == Len(parts) = 2

\* int(port) succeeds on a non-empty string of digits.
IsInt(p) == Len(p) > 0 /\ \A i \in 1..Len(p) : p[i] = "8"

\* int(port): the decimal value.
RECURSIVE ParseInt(_)
ParseInt(p) ==
    IF Len(p) = 0 THEN 0
    ELSE 10 * ParseInt(SubSeq(p, 1, Len(p) - 1)) + 8

\* ---------------------------------------------------------------- state
VARIABLES
    caller,          \* who drives the thread: LiveServerTestCase, or code
                     \* that uses LiveServerThread directly
    memoryDb,        \* settings: a connection is sqlite3 with NAME ':memory:'
    address,         \* cls.__test_server_address
    pcC,             \* controller thread position
    setUpResult,     \* how setUpClass ended: "none", "ok" or the exception
    tdResults,       \* how each finished tearDownClass call ended
    server_thread,   \* hasattr(cls, 'server_thread')
    host,            \* LiveServerThread.address
    port,            \* LiveServerThread.port
    connections_override, \* LiveServerThread.connections_override
    is_ready,        \* LiveServerThread.is_ready flag
    error,           \* LiveServerThread.error
    httpd,           \* hasattr(self, 'httpd')
    pcS,             \* server thread position
    uncaught,        \* exception that left run(), "None" if none
    pending,         \* exception travelling to run()'s except clause
    serving,         \* StoppableWSGIServer.__serving
    is_shut_down,    \* StoppableWSGIServer.__is_shut_down flag
    socket,          \* listening socket: "none", "listening", "closed"
    request,         \* connection being handled by _handle_request_noblock
    selT,            \* ticks spent in the current select
    dispT,           \* ticks spent in the current process_request
    shutT,           \* ticks spent in the current __is_shut_down.wait(2)
    readySetCalls,   \* history: number of is_ready.set() calls
    shutdownCalls,   \* history: number of shutdown() calls begun
    joinBeforeServe, \* history: shutdown() began before serve_forever did
    reqInSelect,     \* history: shutdown() began while the loop was in select
    dispatchesAfterReq, \* history: dispatches begun after that shutdown()
    shutdownResult,  \* history: the latest shutdown() call: "none", "waiting",
                     \* "returned" or "raised"
    wakeDispatches,  \* history: _handle_request_noblock calls begun since
                     \* the latest return of select
    inHandleRequest, \* a handle_request() call is in progress
    hrCount,         \* history: number of handle_request() calls ended
    evFlag,          \* one _ImprovedEvent: _Event__flag
    cond,            \* holder of the lock of _Event__cond: "free", "waiter"
                     \* (the thread in wait) or "caller" (in set / clear)
    timeout,         \* argument of the wait() call: "None" or "timed"
    notified,        \* the waiter blocked in cond.wait has been notified
    waitResult,      \* value returned by wait()
    flagOps,         \* history: the writes of the flag by set() and clear()
    pcW,             \* position of the thread calling wait()
    pcE              \* position of the thread calling set() and clear()

cfgVars == << caller, memoryDb, address >>
ctlVars == << pcC, setUpResult, tdResults, server_thread >>
thrVars == << host, port, connections_override, is_ready, error, httpd,
              pcS, uncaught, pending >>
srvVars == << serving, is_shut_down, socket, request >>
timeVars == << selT, dispT, shutT >>
histVars == << readySetCalls, shutdownCalls, joinBeforeServe, reqInSelect,
               dispatchesAfterReq, shutdownResult >>
hrVars == << inHandleRequest, hrCount >>
evVars == << evFlag, cond, timeout, notified, waitResult, flagOps,
            pcW, pcE >>
sideVars == << hrVars, evVars >>
vars == << cfgVars, ctlVars, thrVars, srvVars, timeVars, histVars,
          wakeDispatches, sideVars >>

\* threading._Event.__init__: the flag is false, nobody holds the lock and no
\* call is in progress.
EvConstructed ==
    /\ evFlag = FALSE
    /\ cond = "free"
    /\ timeout = "None"
    /\ notified = FALSE
    /\ waitResult = FALSE
    /\ flagOps = << >>
    /\ pcW = "w_idle"
    /\ pcE = "e_idle"

Callers == {"LiveServerTestCase", "direct"}

\* State before setUpClass (or before a direct caller constructs the thread).
Init ==
    /\ caller \in Callers
    /\ \/ /\ caller = "LiveServerTestCase"
          /\ memoryDb \in BOOLEAN
          /\ address \in SeqsUpTo(MaxAddrLen)
          /\ pcC = "su_dbcheck"
       \/ /\ caller = "direct"
          /\ memoryDb = FALSE
          /\ address = << >>
          /\ pcC = "su_create"
    /\ setUpResult = "none"
    /\ tdResults = << >>
    /\ server_thread = FALSE
    /\ host = << >>
    /\ port = 0
    /\ connections_override = {}
    /\ is_ready = FALSE
    /\ error = "None"
    /\ httpd = FALSE
    /\ pcS = "unstarted"
    /\ uncaught = "None"
    /\ pending = "None"
    /\ serving = FALSE
    /\ is_shut_down = FALSE
    /\ socket = "none"
    /\ request = "none"
    /\ selT = 0
    /\ dispT = 0
    /\ shutT = 0
    /\ readySetCalls = 0
    /\ shutdownCalls = 0
    /\ joinBeforeServe = FALSE
    /\ reqInSelect = FALSE
    /\ dispatchesAfterReq = 0
    /\ shutdownResult = "none"
    /\ wakeDispatches = 0
    /\ inHandleRequest = FALSE
    /\ hrCount = 0
    /\ EvConstructed

\* ------------------------------------------------ LiveServerTestCase.setUpClass
\* for conn in connections.all(): raise NotImplementedError on in-memory sqlite.
SetUpDbCheck ==
    /\ pcC = "su_dbcheck"
    /\ IF memoryDb
       THEN /\ setUpResult' = "NotImplementedError"
            /\ pcC' = "tests"
       ELSE /\ setUpResult' = setUpResult
            /\ pcC' = "su_split"
    /\ UNCHANGED << sideVars, wakeDispatches,
                    cfgVars, tdResults, server_thread, thrVars, srvVars,
                    timeVars, histVars >>

\* host, port = cls.__test_server_address.split(':'), ImproperlyConfigured
\* when the unpacking fails.
SetUpSplit ==
    /\ pcC = "su_split"
    /\ IF UnpackOk(Split(address))
       THEN /\ setUpResult' = setUpResult
            /\ pcC' = "su_create"
       ELSE /\ setUpResult' = "ImproperlyConfigured"
            /\ pcC' = "tests"
    /\ UNCHANGED << sideVars, wakeDispatches,
                    cfgVars, tdResults, server_thread, thrVars, srvVars,
                    timeVars, histVars >>

\* cls.server_thread = LiveServerThread(host, int(port), connections_override).
\* int(port) is evaluated first and its ValueError is not caught.  setUpClass
\* always passes an empty connections_override; a direct caller passes any.
SetUpCreate ==
    /\ pcC = "su_create"
    /\ IF caller = "LiveServerTestCase"
       THEN LET parts == Split(address)
            IN  IF IsInt(parts[2])
                THEN /\ host' = parts[1]
                     /\ port' = ParseInt(parts[2])
                     /\ connections_override' = {}
                     /\ server_thread' = TRUE
                     /\ setUpResult' = setUpResult
                     /\ pcC' = "su_start"
                ELSE /\ setUpResult' = "ValueError"
                     /\ pcC' = "tests"
                     /\ UNCHANGED << host, port, connections_override,
                                     server_thread >>
       ELSE /\ host' = << "h" >>
            /\ port' = 8
            /\ connections_override' \in SUBSET Aliases
            /\ server_thread' = TRUE
            /\ setUpResult' = setUpResult
            /\ pcC' = "su_start"
    /\ UNCHANGED << sideVars, wakeDispatches,
                    cfgVars, tdResults, is_ready, error, httpd, pcS, uncaught,
                    pending, srvVars, timeVars, histVars >>

\* cls.server_thread.daemon = True; cls.server_thread.start().
SetUpStart ==
    /\ pcC = "su_start"
    /\ pcS' = "run"
    /\ pcC' = "su_wait"
    /\ UNCHANGED << sideVars, wakeDispatches,
                    cfgVars, setUpResult, tdResults, server_thread, host, port,
                    connections_override, is_ready, error, httpd, uncaught,
                    pending, srvVars, timeVars, histVars >>

\* cls.server_thread.is_ready.wait(): no timeout, returns once the flag is set.
SetUpWait ==
    /\ pcC = "su_wait"
    /\ is_ready
    /\ pcC' = "su_check"
    /\ UNCHANGED << sideVars, wakeDispatches,
                    cfgVars, setUpResult, tdResults, server_thread, thrVars,
                    srvVars, timeVars, histVars >>

\* if cls.server_thread.error: raise cls.server_thread.error.
SetUpCheck ==
    /\ pcC = "su_check"
    /\ IF error # "None"
       THEN /\ setUpResult' = error
            /\ pcC' = "tests"
       ELSE /\ setUpResult' = setUpResult
            /\ pcC' = "su_super"
    /\ UNCHANGED << sideVars, wakeDispatches,
                    cfgVars, tdResults, server_thread, thrVars, srvVars,
                    timeVars, histVars >>

\* super(LiveServerTestCase, cls).setUpClass(): setUpClass returns.
SetUpSuper ==
    /\ pcC = "su_super"
    /\ setUpResult' = "ok"
    /\ pcC' = "tests"
    /\ UNCHANGED << sideVars, wakeDispatches,
                    cfgVars, tdResults, server_thread, thrVars, srvVars,
                    timeVars, histVars >>

\* -------------------------------------------------------- LiveServerThread.run
\* if self.connections_override: ...
RunEnter ==
    /\ pcS = "run"
    /\ pcS' = IF connections_override # {} THEN "install" ELSE "handler"
    /\ UNCHANGED << sideVars, wakeDispatches,
                    cfgVars, ctlVars, host, port, connections_override,
                    is_ready, error, httpd, uncaught, pending, srvVars,
                    timeVars, histVars >>

\* for alias, conn in self.connections_override.items():
\*     connections[alias] = conn
\* These statements stand before the try: an exception raised here leaves
\* run() and ends the thread.
RunInstall ==
    /\ pcS = "install"
    /\ \/ /\ pcS' = "handler"
          /\ uncaught' = uncaught
       \/ /\ pcS' = "dead"
          /\ uncaught' = "InstallError"
    /\ UNCHANGED << sideVars, wakeDispatches,
                    cfgVars, ctlVars, host, port, connections_override,
                    is_ready, error, httpd, pending, srvVars, timeVars,
                    histVars >>

\* handler = StaticFilesHandler(_MediaFilesHandler(WSGIHandler())), in the try.
RunHandler ==
    /\ pcS = "handler"
    /\ \/ /\ pcS' = "bind"
          /\ pending' = pending
       \/ /\ pcS' = "except_err"
          /\ pending' = "HandlerError"
    /\ UNCHANGED << sideVars, wakeDispatches,
                    cfgVars, ctlVars, host, port, connections_override,
                    is_ready, error, httpd, uncaught, srvVars, timeVars,
                    histVars >>

\* self.httpd = StoppableWSGIServer((self.address, self.port), ...): binds the
\* socket and runs StoppableWSGIServer.__init__; self.httpd is assigned only
\* when the constructor returns.
RunBind ==
    /\ pcS = "bind"
    /\ \/ /\ httpd' = TRUE
          /\ socket' = "listening"
          /\ is_shut_down' = FALSE
          /\ serving' = FALSE
          /\ pcS' = "set_app"
          /\ pending' = pending
       \/ /\ pcS' = "except_err"
          /\ pending' = "socket.error"
          /\ UNCHANGED << httpd, socket, is_shut_down, serving >>
    /\ UNCHANGED << sideVars, wakeDispatches,
                    cfgVars, ctlVars, host, port, connections_override,
                    is_ready, error, uncaught, request, timeVars, histVars >>

\* self.httpd.set_app(handler).
RunSetApp ==
    /\ pcS = "set_app"
    /\ \/ /\ pcS' = "ready"
          /\ pending' = pending
       \/ /\ pcS' = "except_err"
          /\ pending' = "SetAppError"
    /\ UNCHANGED << sideVars, wakeDispatches,
                    cfgVars, ctlVars, host, port, connections_override,
                    is_ready, error, httpd, uncaught, srvVars, timeVars,
                    histVars >>

\* self.is_ready.set(), then self.httpd.serve_forever() is called.
RunReady ==
    /\ pcS = "ready"
    /\ is_ready' = TRUE
    /\ readySetCalls' = readySetCalls + 1
    /\ pcS' = "sf_serving"
    /\ UNCHANGED << sideVars, wakeDispatches,
                    cfgVars, ctlVars, host, port, connections_override,
                    error, httpd, uncaught, pending, srvVars, timeVars,
                    shutdownCalls, joinBeforeServe, reqInSelect,
                    dispatchesAfterReq, shutdownResult >>

\* Mutant of RunExceptError: the exception is not stored.
RunExceptErrorDropped ==
    /\ pcS = "except_err"
    /\ pcS' = "except_set"
    /\ UNCHANGED << sideVars, wakeDispatches,
                    cfgVars, ctlVars, host, port, connections_override,
                    is_ready, error, httpd, uncaught, pending, srvVars,
                    timeVars, histVars >>

\* except Exception, e: self.error = e
RunExceptError ==
    /\ pcS = "except_err"
    /\ error' = pending
    /\ pcS' = "except_set"
    /\ UNCHANGED << sideVars, wakeDispatches,
                    cfgVars, ctlVars, host, port, connections_override,
                    is_ready, httpd, uncaught, pending, srvVars, timeVars,
                    histVars >>

\* Mutant of RunExceptSet: the except clause does not signal readiness.
RunExceptSetDropped ==
    /\ pcS = "except_set"
    /\ pcS' = "run_end"
    /\ UNCHANGED << sideVars, wakeDispatches,
                    cfgVars, ctlVars, host, port, connections_override,
                    is_ready, error, httpd, uncaught, pending, srvVars,
                    timeVars, histVars >>

\* self.is_ready.set() of the except clause.
RunExceptSet ==
    /\ pcS = "except_set"
    /\ is_ready' = TRUE
    /\ readySetCalls' = readySetCalls + 1
    /\ pcS' = "run_end"
    /\ UNCHANGED << sideVars, wakeDispatches,
                    cfgVars, ctlVars, host, port, connections_override,
                    error, httpd, uncaught, pending, srvVars, timeVars,
                    shutdownCalls, joinBeforeServe, reqInSelect,
                    dispatchesAfterReq, shutdownResult >>

\* run() returns and the thread ends.
RunReturn ==
    /\ pcS = "run_end"
    /\ pcS' = "dead"
    /\ UNCHANGED << sideVars, wakeDispatches,
                    cfgVars, ctlVars, host, port, connections_override,
                    is_ready, error, httpd, uncaught, pending, srvVars,
                    timeVars, histVars >>

\* --------------------------------------------- StoppableWSGIServer.serve_forever
\* Mutant of SfServing: the flag is not raised.
SfServingNotSet ==
    /\ pcS = "sf_serving"
    /\ pcS' = "sf_clear"
    /\ UNCHANGED << sideVars, wakeDispatches,
                    cfgVars, ctlVars, host, port, connections_override,
                    is_ready, error, httpd, uncaught, pending, srvVars,
                    timeVars, histVars >>

\* self.__serving = True
SfServing ==
    /\ pcS = "sf_serving"
    /\ serving' = TRUE
    /\ pcS' = "sf_clear"
    /\ UNCHANGED << sideVars, wakeDispatches,
                    cfgVars, ctlVars, host, port, connections_override,
                    is_ready, error, httpd, uncaught, pending, is_shut_down,
                    socket, request, timeVars, histVars >>

\* Mutant of SfClear: set() is called where clear() was meant.
SfClearSets ==
    /\ pcS = "sf_clear"
    /\ is_shut_down' = TRUE
    /\ pcS' = "sf_while"
    /\ UNCHANGED << sideVars, wakeDispatches,
                    cfgVars, ctlVars, host, port, connections_override,
                    is_ready, error, httpd, uncaught, pending, serving,
                    socket, request, timeVars, histVars >>

\* self.__is_shut_down.clear()
SfClear ==
    /\ pcS = "sf_clear"
    /\ is_shut_down' = FALSE
    /\ pcS' = "sf_while"
    /\ UNCHANGED << sideVars, wakeDispatches,
                    cfgVars, ctlVars, host, port, connections_override,
                    is_ready, error, httpd, uncaught, pending, serving,
                    socket, request, timeVars, histVars >>

\* Mutant of SfWhile: the loop never looks at the flag again.
SfWhileFlagIgnored ==
    /\ pcS = "sf_while"
    /\ pcS' = "select"
    /\ selT' = 0
    /\ UNCHANGED << sideVars, wakeDispatches,
                    cfgVars, ctlVars, host, port, connections_override,
                    is_ready, error, httpd, uncaught, pending, srvVars,
                    dispT, shutT, histVars >>

\* while self.__serving: enter select, or leave the loop.
SfWhile ==
    /\ pcS = "sf_while"
    /\ pcS' = IF serving THEN "select" ELSE "sf_set"
    /\ selT' = 0
    /\ UNCHANGED << sideVars, wakeDispatches,
                    cfgVars, ctlVars, host, port, connections_override,
                    is_ready, error, httpd, uncaught, pending, srvVars,
                    dispT, shutT, histVars >>

\* r, w, e = select.select([self], [], [], poll_interval); if r: ...
\* select returns the socket as readable when a connection is waiting, returns
\* nothing when poll_interval has passed, or raises select.error (interrupted
\* call; always on a closed socket).
SfSelect ==
    /\ pcS = "select"
    /\ \/ /\ socket = "listening"
          /\ pcS' = "get_request"
          /\ dispatchesAfterReq' =
                 IF reqInSelect THEN dispatchesAfterReq + 1
                                ELSE dispatchesAfterReq
          /\ pending' = pending
       \/ /\ socket = "listening"
          /\ selT = PollTicks
          /\ pcS' = "sf_while"
          /\ UNCHANGED << dispatchesAfterReq, pending >>
       \/ /\ pcS' = "except_err"
          /\ pending' = "select.error"
          /\ UNCHANGED dispatchesAfterReq
    /\ selT' = 0
    /\ wakeDispatches' = 0
    /\ UNCHANGED << sideVars,
                    cfgVars, ctlVars, host, port, connections_override,
                    is_ready, error, httpd, uncaught, srvVars, dispT, shutT,
                    readySetCalls, shutdownCalls, joinBeforeServe,
                    reqInSelect, shutdownResult >>

\* self.__is_shut_down.set(), then serve_forever returns into run().
SfSet ==
    /\ pcS = "sf_set"
    /\ is_shut_down' = TRUE
    /\ pcS' = "run_end"
    /\ UNCHANGED << sideVars, wakeDispatches,
                    cfgVars, ctlVars, host, port, connections_override,
                    is_ready, error, httpd, uncaught, pending, serving,
                    socket, request, timeVars, histVars >>

\* ------------------------------------ StoppableWSGIServer._handle_request_noblock
\* _handle_request_noblock returns to its caller: the loop of serve_forever
\* (its test comes next) or handle_request.
DispatchReturn == IF inHandleRequest THEN "hr_return" ELSE "sf_while"

\* Mutant of GetRequest: the accept error is not caught.
GetRequestUncaught ==
    /\ pcS = "get_request"
    /\ wakeDispatches' = wakeDispatches + 1
    /\ \/ /\ request' = "accepted"
          /\ pcS' = "verify"
          /\ pending' = pending
       \/ /\ request' = "accept_error"
          /\ pcS' = "except_err"
          /\ pending' = "socket.error"
    /\ UNCHANGED << sideVars,
                    cfgVars, ctlVars, host, port, connections_override,
                    is_ready, error, httpd, uncaught, serving, is_shut_down,
                    socket, timeVars, histVars >>

\* try: request, client_address = self.get_request()
\* except socket.error: return
GetRequest ==
    /\ pcS = "get_request"
    /\ wakeDispatches' = wakeDispatches + 1
    /\ \/ /\ request' = "accepted"
          /\ pcS' = "verify"
       \/ /\ request' = "accept_error"
          /\ pcS' = DispatchReturn
    /\ UNCHANGED << sideVars,
                    cfgVars, ctlVars, host, port, connections_override,
                    is_ready, error, httpd, uncaught, pending, serving,
                    is_shut_down, socket, timeVars, histVars >>

\* if self.verify_request(request, client_address):
VerifyRequest ==
    /\ pcS = "verify"
    /\ \/ /\ request' = request
          /\ pcS' = "process"
       \/ /\ request' = "rejected"
          /\ pcS' = DispatchReturn
    /\ dispT' = 0
    /\ UNCHANGED << sideVars, wakeDispatches,
                    cfgVars, ctlVars, host, port, connections_override,
                    is_ready, error, httpd, uncaught, pending, serving,
                    is_shut_down, socket, selT, shutT, histVars >>

\* Mutant of ProcessRequest: after a request the next waiting connection is
\* accepted at once, without a new select.
ProcessRequestDrains ==
    /\ pcS = "process"
    /\ \/ /\ request' = "done"
          /\ pcS' = "get_request"
       \/ /\ request' = "failed"
          /\ pcS' = "handle_error"
    /\ dispT' = 0
    /\ UNCHANGED << sideVars, wakeDispatches,
                    cfgVars, ctlVars, host, port, connections_override,
                    is_ready, error, httpd, uncaught, pending, serving,
                    is_shut_down, socket, selT, shutT, histVars >>

\* try: self.process_request(request, client_address)
\* except Exception: ...
\* The request is answered on this thread; the call may take time.
ProcessRequest ==
    /\ pcS = "process"
    /\ \/ /\ request' = "done"
          /\ pcS' = DispatchReturn
       \/ /\ request' = "failed"
          /\ pcS' = "handle_error"
    /\ dispT' = 0
    /\ UNCHANGED << sideVars, wakeDispatches,
                    cfgVars, ctlVars, host, port, connections_override,
                    is_ready, error, httpd, uncaught, pending, serving,
                    is_shut_down, socket, selT, shutT, histVars >>

\* self.handle_error(request, client_address)
HandleError ==
    /\ pcS = "handle_error"
    /\ request' = "reported"
    /\ pcS' = "close_request"
    /\ UNCHANGED << sideVars, wakeDispatches,
                    cfgVars, ctlVars, host, port, connections_override,
                    is_ready, error, httpd, uncaught, pending, serving,
                    is_shut_down, socket, timeVars, histVars >>

\* self.close_request(request)
CloseRequest ==
    /\ pcS = "close_request"
    /\ request' = "closed"
    /\ pcS' = DispatchReturn
    /\ UNCHANGED << sideVars, wakeDispatches,
                    cfgVars, ctlVars, host, port, connections_override,
                    is_ready, error, httpd, uncaught, pending, serving,
                    is_shut_down, socket, timeVars, histVars >>

\* --------------------------------------------- LiveServerTestCase.tearDownClass
\* tearDownClass is called (the test runner's call, or a repeated call).
TearDownEnter ==
    /\ pcC = "tests"
    /\ setUpResult # "none"
    /\ Len(tdResults) < MaxTearDowns
    /\ pcC' = "td_has"
    /\ UNCHANGED << sideVars, wakeDispatches,
                    cfgVars, setUpResult, tdResults, server_thread, thrVars,
                    srvVars, timeVars, histVars >>

\* if hasattr(cls, 'server_thread'): cls.server_thread.join()
TearDownHas ==
    /\ pcC = "td_has"
    /\ pcC' = IF server_thread THEN "j_has" ELSE "td_super"
    /\ UNCHANGED << sideVars, wakeDispatches,
                    cfgVars, setUpResult, tdResults, server_thread, thrVars,
                    srvVars, timeVars, histVars >>

\* super(LiveServerTestCase, cls).tearDownClass(): tearDownClass returns.
TearDownSuper ==
    /\ pcC = "td_super"
    /\ tdResults' = Append(tdResults, "ok")
    /\ pcC' = "tests"
    /\ UNCHANGED << sideVars, wakeDispatches,
                    cfgVars, setUpResult, server_thread, thrVars, srvVars,
                    timeVars, histVars >>

\* ------------------------------------------------------- LiveServerThread.join
\* Mutant of JoinHas: the socket is closed without shutdown() first.
JoinHasNoShutdown ==
    /\ pcC = "j_has"
    /\ pcC' = IF httpd THEN "j_close" ELSE "j_join"
    /\ UNCHANGED << sideVars, wakeDispatches,
                    cfgVars, setUpResult, tdResults, server_thread, thrVars,
                    srvVars, timeVars, histVars >>

\* if hasattr(self, 'httpd'):
JoinHas ==
    /\ pcC = "j_has"
    /\ pcC' = IF httpd THEN "sh_set" ELSE "j_join"
    /\ UNCHANGED << sideVars, wakeDispatches,
                    cfgVars, setUpResult, tdResults, server_thread, thrVars,
                    srvVars, timeVars, histVars >>

\* Mutant of ShutdownSet: the latch is cleared by the caller as well.
ShutdownSetClearing ==
    /\ pcC = "sh_set"
    /\ serving' = FALSE
    /\ is_shut_down' = FALSE
    /\ shutT' = 0
    /\ shutdownCalls' = shutdownCalls + 1
    /\ joinBeforeServe' = (joinBeforeServe \/ pcS = "sf_serving")
    /\ reqInSelect' = (pcS = "select")
    /\ dispatchesAfterReq' = 0
    /\ shutdownResult' = "waiting"
    /\ pcC' = "sh_wait"
    /\ UNCHANGED << sideVars, wakeDispatches,
                    cfgVars, setUpResult, tdResults, server_thread, thrVars,
                    socket, request, selT, dispT, readySetCalls >>

\* shutdown(): self.__serving = False
ShutdownSet ==
    /\ pcC = "sh_set"
    /\ serving' = FALSE
    /\ shutT' = 0
    /\ shutdownCalls' = shutdownCalls + 1
    /\ joinBeforeServe' = (joinBeforeServe \/ pcS = "sf_serving")
    /\ reqInSelect' = (pcS = "select")
    /\ dispatchesAfterReq' = 0
    /\ shutdownResult' = "waiting"
    /\ pcC' = "sh_wait"
    /\ UNCHANGED << sideVars, wakeDispatches,
                    cfgVars, setUpResult, tdResults, server_thread, thrVars,
                    is_shut_down, socket, request, selT, dispT,
                    readySetCalls >>

\* Mutant of WaitResult: wait() returns None as threading.Event.wait does in
\* Python 2.6, so "not wait(2)" is always true and a set latch still raises.
WaitResultNone(flag) == FALSE

\* Mutant of WaitResult: wait() reports success also after a timeout.
WaitResultTrue(flag) == TRUE

\* _ImprovedEvent.wait: return self._Event__flag, read when the wait ends.
WaitResult(flag) == flag

\* if not self.__is_shut_down.wait(2): raise RuntimeError(...)
\* The wait ends when the latch is set or when 2 seconds have passed.  The
\* RuntimeError is caught neither by join nor by tearDownClass.
ShutdownWait ==
    /\ pcC = "sh_wait"
    /\ is_shut_down \/ shutT = ShutdownTicks
    /\ IF WaitResult(is_shut_down)
       THEN /\ pcC' = "j_close"
            /\ tdResults' = tdResults
            /\ shutdownResult' = "returned"
       ELSE /\ pcC' = "tests"
            /\ tdResults' = Append(tdResults, "RuntimeError")
            /\ shutdownResult' = "raised"
    /\ shutT' = 0
    /\ UNCHANGED << sideVars, wakeDispatches,
                    cfgVars, setUpResult, server_thread, thrVars, srvVars,
                    selT, dispT, readySetCalls, shutdownCalls,
                    joinBeforeServe, reqInSelect, dispatchesAfterReq >>

\* self.httpd.server_close(): closes the listening socket.
JoinClose ==
    /\ pcC = "j_close"
    /\ socket' = "closed"
    /\ pcC' = "j_join"
    /\ UNCHANGED << sideVars, wakeDispatches,
                    cfgVars, setUpResult, tdResults, server_thread, thrVars,
                    serving, is_shut_down, request, timeVars, histVars >>

\* super(LiveServerThread, self).join(timeout): tearDownClass passes no
\* timeout, so the call returns when the thread has ended.
JoinThread ==
    /\ pcC = "j_join"
    /\ pcS = "dead"
    /\ pcC' = "td_super"
    /\ UNCHANGED << sideVars, wakeDispatches,
                    cfgVars, setUpResult, tdResults, server_thread, thrVars,
                    srvVars, timeVars, histVars >>

\* ------------------------------------------------------------------- time
\* The server thread is inside a call that takes time.
ServerBlocked ==
    \/ pcS \in {"unstarted", "dead"}
    \/ pcS = "select" /\ socket = "listening" /\ selT < PollTicks
    \/ pcS = "process" /\ dispT < MaxDispatchTicks

\* The controller is inside a call that takes time.
ControllerBlocked ==
    \/ pcC = "tests"
    \/ pcC = "su_wait" /\ ~is_ready
    \/ pcC = "sh_wait" /\ ~is_shut_down /\ shutT < ShutdownTicks
    \/ pcC = "j_join" /\ pcS # "dead"

\* One poll interval passes.
Tick ==
    /\ ServerBlocked
    /\ ControllerBlocked
    /\ pcS \in {"select", "process"} \/ pcC = "sh_wait"
    /\ selT' = IF pcS = "select" THEN selT + 1 ELSE selT
    /\ dispT' = IF pcS = "process" THEN dispT + 1 ELSE dispT
    /\ shutT' = IF pcC = "sh_wait" THEN shutT + 1 ELSE shutT
    /\ UNCHANGED << sideVars, wakeDispatches,
                    cfgVars, ctlVars, thrVars, srvVars, histVars >>

\* ---------------------------------------------------------- specification
Controller ==
    \/ SetUpDbCheck \/ SetUpSplit \/ SetUpCreate \/ SetUpStart \/ SetUpWait
    \/ SetUpCheck \/ SetUpSuper
    \/ TearDownEnter \/ TearDownHas \/ TearDownSuper
    \/ JoinHas \/ ShutdownSet \/ ShutdownWait \/ JoinClose \/ JoinThread

Server ==
    \/ RunEnter \/ RunInstall \/ RunHandler \/ RunBind \/ RunSetApp
    \/ RunReady \/ RunExceptError \/ RunExceptSet \/ RunReturn
    \/ SfServing \/ SfClear \/ SfWhile \/ SfSelect \/ SfSet
    \/ GetRequest \/ VerifyRequest \/ ProcessRequest \/ HandleError
    \/ CloseRequest

Next == Controller \/ Server \/ Tick

Spec == Init /\ [][Next]_vars

\* Both threads are scheduled and time passes.
FairSpec ==
    Spec /\ WF_vars(Controller) /\ WF_vars(Server) /\ SF_vars(Tick)

\* ------------------------------------------- StoppableWSGIServer.handle_request
\* A server used step by step: it has been constructed and bound, and either
\* never served, or a serve_forever on it has returned, or one was left by an
\* exception; some thread calls handle_request() on it, one call at a time.
HrInit ==
    /\ caller = "direct"
    /\ memoryDb = FALSE
    /\ address = << >>
    /\ pcC = "tests"
    /\ setUpResult = "none"
    /\ tdResults = << >>
    /\ server_thread = FALSE
    /\ host = << "h" >>
    /\ port = 8
    /\ connections_override = {}
    /\ is_ready = FALSE
    /\ error = "None"
    /\ httpd = TRUE
    /\ pcS = "hr_idle"
    /\ uncaught = "None"
    /\ pending = "None"
    /\ \E s \in {<< FALSE, FALSE >>, << FALSE, TRUE >>, << TRUE, FALSE >>} :
           serving = s[1] /\ is_shut_down = s[2]
    /\ socket = "listening"
    /\ request = "none"
    /\ selT = 0
    /\ dispT = 0
    /\ shutT = 0
    /\ readySetCalls = 0
    /\ shutdownCalls = 0
    /\ joinBeforeServe = FALSE
    /\ reqInSelect = FALSE
    /\ dispatchesAfterReq = 0
    /\ shutdownResult = "none"
    /\ wakeDispatches = 0
    /\ inHandleRequest = FALSE
    /\ hrCount = 0
    /\ EvConstructed

\* Mutant of HrCall: the call marks the server as serving, as serve_forever
\* does.
HrCallMarksServing ==
    /\ pcS = "hr_idle"
    /\ hrCount < MaxHandleRequests
    /\ inHandleRequest' = TRUE
    /\ serving' = TRUE
    /\ pcS' = "hr_select"
    /\ UNCHANGED << evVars, hrCount, wakeDispatches, cfgVars, ctlVars,
                    host, port,
                    connections_override, is_ready, error, httpd, uncaught,
                    pending, is_shut_down, socket, request, timeVars,
                    histVars >>

\* handle_request() is called.
HrCall ==
    /\ pcS = "hr_idle"
    /\ hrCount < MaxHandleRequests
    /\ inHandleRequest' = TRUE
    /\ pcS' = "hr_select"
    /\ UNCHANGED << evVars, hrCount, wakeDispatches, cfgVars, ctlVars,
                    host, port,
                    connections_override, is_ready, error, httpd, uncaught,
                    pending, srvVars, timeVars, histVars >>

\* fd_sets = select.select([self], [], [], None)
\* if not fd_sets[0]: return
\* select returns the socket as readable, or an empty list (handle_request
\* then returns at once), or raises select.error, which leaves handle_request.
HrSelect ==
    /\ pcS = "hr_select"
    /\ \/ /\ socket = "listening"
          /\ pcS' = "get_request"
          /\ UNCHANGED << inHandleRequest, hrCount, uncaught >>
       \/ /\ pcS' = "hr_idle"
          /\ inHandleRequest' = FALSE
          /\ hrCount' = hrCount + 1
          /\ uncaught' \in {uncaught, "select.error"}
    /\ wakeDispatches' = 0
    /\ UNCHANGED << evVars, cfgVars, ctlVars, host, port, connections_override,
                    is_ready, error, httpd, pending, srvVars, timeVars,
                    histVars >>

\* self._handle_request_noblock() has returned and handle_request returns.
HrReturn ==
    /\ pcS = "hr_return"
    /\ pcS' = "hr_idle"
    /\ inHandleRequest' = FALSE
    /\ hrCount' = hrCount + 1
    /\ UNCHANGED << evVars, wakeDispatches, cfgVars, ctlVars, host, port,
                    connections_override, is_ready, error, httpd, uncaught,
                    pending, srvVars, timeVars, histVars >>

HrNext ==
    \/ HrCall \/ HrSelect \/ HrReturn
    \/ GetRequest \/ VerifyRequest \/ ProcessRequest \/ HandleError
    \/ CloseRequest \/ Tick

HrSpec == HrInit /\ [][HrNext]_vars

\* ------------------------------------------------------------ _ImprovedEvent
\* One event object on its own: one thread calls wait(timeout) once, another
\* calls set() and clear() in any order. set and clear are those of
\* threading._Event, which run under the lock of the condition; set notifies
\* all waiters.
progVars == << cfgVars, ctlVars, thrVars, srvVars, timeVars, histVars,
              wakeDispatches, hrVars >>

\* The event has just been constructed; the rest of the program has not begun.
EvInit == Init /\ caller = "direct"

\* wait(timeout) is called; self._Event__cond.acquire()
EvWaitAcquire ==
    /\ pcW = "w_idle"
    /\ cond = "free"
    /\ timeout' \in {"None", "timed"}
    /\ cond' = "waiter"
    /\ pcW' = "w_check"
    /\ UNCHANGED << evFlag, notified, waitResult, flagOps, pcE, progVars >>

\* if not self._Event__flag: self._Event__cond.wait(timeout)
\* Entering cond.wait releases the lock and queues the waiter in one step.
EvWaitCheck ==
    /\ pcW = "w_check"
    /\ IF evFlag
         THEN /\ pcW' = "w_return"
              /\ UNCHANGED << cond, notified >>
         ELSE /\ pcW' = "w_waiting"
              /\ cond' = "free"
              /\ notified' = FALSE
    /\ UNCHANGED << evFlag, timeout, waitResult, flagOps, pcE, progVars >>

\* cond.wait stops blocking: the waiter was notified, or its timeout passed.
EvWaitWake ==
    /\ pcW = "w_waiting"
    /\ notified \/ timeout = "timed"
    /\ pcW' = "w_reacquire"
    /\ UNCHANGED << evFlag, cond, timeout, notified, waitResult, flagOps,
                    pcE, progVars >>

\* cond.wait takes the lock again before it returns.
EvWaitReacquire ==
    /\ pcW = "w_reacquire"
    /\ cond = "free"
    /\ cond' = "waiter"
    /\ pcW' = "w_return"
    /\ UNCHANGED << evFlag, timeout, notified, waitResult, flagOps, pcE,
                    progVars >>

\* Mutant of EvWaitReturn: wait reports whether it was notified.
EvWaitReturnNotified ==
    /\ pcW = "w_return"
    /\ waitResult' = notified
    /\ pcW' = "w_release"
    /\ UNCHANGED << evFlag, cond, timeout, notified, flagOps, pcE,
                    progVars >>

\* return self._Event__flag
EvWaitReturn ==
    /\ pcW = "w_return"
    /\ waitResult' = evFlag
    /\ pcW' = "w_release"
    /\ UNCHANGED << evFlag, cond, timeout, notified, flagOps, pcE,
                    progVars >>

\* finally: self._Event__cond.release()
EvWaitRelease ==
    /\ pcW = "w_release"
    /\ cond' = "free"
    /\ pcW' = "w_done"
    /\ UNCHANGED << evFlag, timeout, notified, waitResult, flagOps, pcE,
                    progVars >>

\* set() or clear() is called and takes the lock.
EvCallAcquire ==
    /\ pcE = "e_idle"
    /\ Len(flagOps) < MaxFlagOps
    /\ cond = "free"
    /\ cond' = "caller"
    /\ pcE' \in {"e_set", "e_clear"}
    /\ UNCHANGED << evFlag, timeout, notified, waitResult, flagOps, pcW,
                    progVars >>

\* set(): the flag becomes true and every waiter is notified.
EvSet ==
    /\ pcE = "e_set"
    /\ evFlag' = TRUE
    /\ notified' = (notified \/ pcW = "w_waiting")
    /\ flagOps' = Append(flagOps, "set")
    /\ pcE' = "e_release"
    /\ UNCHANGED << cond, timeout, waitResult, pcW, progVars >>

\* clear(): the flag becomes false.
EvClear ==
    /\ pcE = "e_clear"
    /\ evFlag' = FALSE
    /\ flagOps' = Append(flagOps, "clear")
    /\ pcE' = "e_release"
    /\ UNCHANGED << cond, timeout, notified, waitResult, pcW, progVars >>

\* set() or clear() releases the lock and returns.
EvCallRelease ==
    /\ pcE = "e_release"
    /\ cond' = "free"
    /\ pcE' = "e_idle"
    /\ UNCHANGED << evFlag, timeout, notified, waitResult, flagOps, pcW,
                    progVars >>

EvNext ==
    \/ EvWaitAcquire \/ EvWaitCheck \/ EvWaitWake \/ EvWaitReacquire
    \/ EvWaitReturn \/ EvWaitRelease
    \/ EvCallAcquire \/ EvSet \/ EvClear \/ EvCallRelease

EvSpec == EvInit /\ [][EvNext]_vars

\* ------------------------------------------------------ shared predicates
\* Positions of the controller before is_ready.wait() has returned.
BeforeReadyWaitReturned ==
    pcC \in {"su_dbcheck", "su_split", "su_create", "su_start", "su_wait"}

\* Positions of the controller inside setUpClass.
InSetUpClass ==
    BeforeReadyWaitReturned \/ pcC \in {"su_check", "su_super"}

\* The constructor of StoppableWSGIServer raised in run().
BindFailed == pending = "socket.error" /\ ~httpd

\* Positions of the server thread inside serve_forever, its first statement
\* executed.
SfActive ==
    pcS \in {"sf_clear", "sf_while", "select", "get_request", "verify",
             "process", "handle_error", "close_request", "sf_set"}

\* Positions of the server thread inside _handle_request_noblock.
InDispatch ==
    pcS \in {"get_request", "verify", "process", "handle_error",
             "close_request"}

\* ------------------------------------------------------------------ C1
\* C1: when the server constructor raises in run(), the error slot holds that
\* exception by the time the controller's is_ready.wait() has returned,
\* setUpClass ends by raising that same exception, and the controller never
\* reaches super().setUpClass().
C1_BindErrorReraised ==
    BindFailed =>
        /\ ~BeforeReadyWaitReturned => error = "socket.error"
        /\ pcC # "su_super"
        /\ setUpResult \in {"none", "socket.error"}
        /\ ~InSetUpClass => setUpResult = "socket.error"

\* C1 witness: the bind failed and setUpClass has re-raised it.
C1_Witness ==
    BindFailed /\ setUpResult = "socket.error" /\ error = "socket.error"

\* ------------------------------------------------------------------ C2
\* C2: every started LiveServerThread sets is_ready whichever step of run()
\* raises; as a property of finished runs: a server thread that has ended has
\* set is_ready.
C2_EndedThreadSetReady == pcS = "dead" => is_ready

\* ------------------------------------------------------------------ C3
\* C3: after a successful startup, a join called once the readiness wait has
\* returned always completes, also when it is issued before the server thread
\* has entered serve_forever: shutdown() returns normally, the socket is
\* closed and the thread ends.  Stated for the case the claim names: the
\* first tearDownClass began shutdown() before serve_forever began; no
\* connection has arrived and no exception was raised, so that nothing but
\* the interleaving decides the outcome.
C3_JoinBeforeServeCompletes ==
    (/\ setUpResult = "ok"
     /\ joinBeforeServe
     /\ request = "none"
     /\ pending = "None"
     /\ Len(tdResults) >= 1) =>
        /\ tdResults[1] = "ok"
        /\ socket = "closed"
        /\ pcS = "dead"

C5_DispatchFailureContained ==
    [][ /\ (pcS = "get_request" /\ pcS' # pcS /\ request' = "accept_error") =>
               pcS' = "sf_while"
        /\ (pcS = "process" /\ pcS' # pcS /\ request' = "failed") =>
               pcS' = "handle_error"
        /\ (pcS = "handle_error" /\ pcS' # pcS) =>
               pcS' = "close_request" /\ request' = "reported"
        /\ (pcS = "close_request" /\ pcS' # pcS) =>
               pcS' = "sf_while" /\ request' = "closed"
        /\ (InDispatch /\ pcS' # pcS) =>
               /\ pcS' \in {"verify", "process", "handle_error",
                            "close_request", "sf_while"}
               /\ UNCHANGED << serving, is_shut_down, error, pending,
                               uncaught, socket >>
        /\ (pcS = "sf_while" /\ request \in {"accept_error", "closed"}
               /\ pcS' # pcS /\ serving) => pcS' = "select"
      ]_vars

\* C5 witness: the loop is polling again after a request whose processing
\* failed was reported and closed.
C5_Witness ==
    pcS = "select" /\ request = "closed" /\ serving /\ error = "None"

FirstTearDownDone == Len(tdResults) >= 1 /\ tdResults[1] = "ok"

\* C7: once a first tearDownClass (join) has completed, a later call changes
\* no field of the thread or of the server and raises nothing; and a
\* tearDownClass with no server_thread attribute changes nothing and raises
\* nothing.
C7_TearDownIdempotent ==
    [][(FirstTearDownDone \/ (~server_thread /\ ~InSetUpClass)) =>
          /\ UNCHANGED << server_thread, is_ready, error, httpd, pcS,
                          uncaught, serving, is_shut_down, socket, request >>
          /\ shutdownResult' # "raised"
          /\ Len(tdResults') > Len(tdResults) =>
                 tdResults'[Len(tdResults')] = "ok"]_vars

\* C7 witness: a second tearDownClass has completed for a thread that owns a
\* server, shutdown() and server_close() having run twice.
C7_Witness ==
    /\ Len(tdResults) = 2
    /\ tdResults[1] = "ok"
    /\ httpd
    /\ shutdownCalls = 2

\* ------------------------------------------------------------------ C8
\* Number of ':' in the configured address.
NumSeparators ==
    Cardinality({i \in 1..Len(address) : address[i] = ":"})

\* C8: setUpClass raises NotImplementedError for an in-memory sqlite database
\* and ImproperlyConfigured for every address that does not split into
\* exactly two parts, and in both cases no LiveServerThread exists, none was
\* started and no socket was bound.
C8_RejectedBeforeThread ==
    /\ setUpResult \in {"NotImplementedError", "ImproperlyConfigured"} =>
           /\ ~server_thread
           /\ pcS = "unstarted"
           /\ socket = "none"
           /\ ~httpd
    /\ (caller = "LiveServerTestCase" /\ memoryDb /\ pcC # "su_dbcheck") =>
           setUpResult = "NotImplementedError"
    /\ (caller = "LiveServerTestCase" /\ ~memoryDb /\ NumSeparators # 1
            /\ pcC \notin {"su_dbcheck", "su_split"}) =>
           setUpResult = "ImproperlyConfigured"

\* C8 witness: an address with two separators was rejected.
C8_Witness ==
    /\ setUpResult = "ImproperlyConfigured"
    /\ NumSeparators = 2
    /\ pcC = "tests"

\* ------------------------------------------------------------------ C9
\* C9: is_ready.set() is called exactly once in every execution of the
\* thread: never more than once, and once by the time a run() that reached
\* its try statement has ended.
C9_ReadySetExactlyOnce ==
    /\ readySetCalls <= 1
    /\ (pcS = "dead" /\ uncaught = "None") => readySetCalls = 1

SfLeft ==
    \/ httpd /\ pending = "None" /\ pcS \in {"run_end", "dead"}
    \/ pending = "select.error"

\* Positions of the poll loop of serve_forever.
InPollLoop == pcS \in {"sf_while", "select"} \/ InDispatch

\* C11: the shutdown-complete latch is unset while the poll loop runs, and is
\* set whenever serve_forever has been left, whether the loop saw serving
\* false or an exception left it.
C11_LatchSetOnEveryExit ==
    /\ InPollLoop => ~is_shut_down
    /\ SfLeft => is_shut_down


\* ------------------------------------------------------------------ C12
\* C12: the shutdown-complete latch is set only after shutdown() has written
\* serving = false, and join reaches the underlying Thread.join of a thread
\* that owns a server only with the latch set.
C12_ShutdownOrdering ==
    /\ is_shut_down => shutdownCalls >= 1
    /\ (httpd /\ pcC \in {"j_close", "j_join"}) => is_shut_down
    /\ (httpd /\ Len(tdResults) >= 1 /\ tdResults[Len(tdResults)] = "ok") =>
           is_shut_down

\* C12 witness: join is at Thread.join for a thread that owns a server, the
\* latch set after one shutdown request.
C12_Witness ==
    pcC = "j_join" /\ httpd /\ is_shut_down /\ shutdownCalls = 1

\* ------------------------------------------------------------------ C13
\* C13 as claimed: whenever the error slot is non-null, is_ready is set.
C13_ErrorImpliesReady == error # "None" => is_ready

\* C13 amended: whenever the error slot is non-null, is_ready is set or the
\* server thread is about to set it (it stands between self.error = e and
\* self.is_ready.set()); the controller, which reads the slot only after its
\* wait has returned, never sees an error without the latch.
C13_ErrorThenReady ==
    /\ error # "None" => (is_ready \/ pcS = "except_set")
    /\ (error # "None" /\ ~BeforeReadyWaitReturned) => is_ready

\* C13 witness: the error is stored and the latch not yet set.
C13_Witness ==
    error # "None" /\ ~is_ready /\ pcS = "except_set" /\ pcC = "su_wait"

\* ------------------------------------------------------------------ C14
\* C14: after a failed startup (error slot non-null) join ends without raising
\* and the thread has ended, with or without a server reference.
C14_JoinAfterFailedStartup ==
    (error # "None" /\ Len(tdResults) >= 1) =>
        tdResults[1] = "ok" /\ pcS = "dead"

\* ------------------------------------------------------------------ C15
\* C15: the listening socket is closed only after shutdown: whenever it is
\* closed the serve_forever loop has been left, the latch is set and the
\* server thread is past every select and accept.
C15_CloseAfterShutdown ==
    socket = "closed" =>
        /\ is_shut_down
        /\ shutdownCalls >= 1
        /\ pcS \in {"run_end", "dead"}
        /\ pending = "None"

\* C15 witness: the socket is closed and the server thread has left
\* serve_forever but not yet ended.
C15_Witness ==
    socket = "closed" /\ pcS = "run_end" /\ is_shut_down


\* ------------------------------------------------------------------ C19
\* C19: when shutdown() has raised its timeout error inside join, join ended
\* there: the socket is still open, the server reference is still present and
\* serving is false as shutdown() wrote it.  Stated for the time from the
\* raise up to the next shutdown() call.
C19_StateAfterShutdownTimeout ==
    shutdownResult = "raised" =>
        /\ socket = "listening"
        /\ httpd
        /\ pcC \notin {"j_close", "j_join", "td_super"}
        /\ ~serving

\* ------------------------------------------------------------------ C20
\* C20: once the shutdown-complete latch is set the server thread is past its
\* loop: no _handle_request_noblock begins and no connection is accepted or
\* handled any more; and when join has returned normally for a thread that
\* owns a server, the latch is set and the thread has ended.
C20_NoDispatchAfterJoin ==
    /\ [](is_shut_down => pcS \in {"run_end", "dead"})
    /\ [][is_shut_down => (request' = request /\ pcS' # "get_request")]_vars
    /\ []((httpd /\ Len(tdResults) >= 1
             /\ tdResults[Len(tdResults)] = "ok") =>
            (is_shut_down /\ pcS = "dead"))

\* C20 witness: join has returned normally after the server had handled a
\* request.
C20_Witness ==
    /\ httpd
    /\ Len(tdResults) = 1
    /\ tdResults[1] = "ok"
    /\ request = "done"
    /\ pcS = "dead"


\* ------------------------------------------------------------------ C16
\* C16: requests are handled one after the other: a dispatch begins only from
\* a return of select that reported the socket readable, at most one begins
\* per return of select, a return by timeout begins none and goes back to the
\* loop test, and a dispatch that ends goes back to the loop test.
C16_OneDispatchPerWakeUp ==
    /\ [](wakeDispatches <= 1)
    /\ []((InDispatch /\ pcS # "get_request") => wakeDispatches = 1)
    /\ [][(pcS' = "get_request" /\ pcS # "get_request") =>
              (pcS = "select" /\ wakeDispatches' = 0)]_vars
    /\ [][(pcS = "select" /\ pcS' = "sf_while") =>
              (selT = PollTicks /\ request' = request
               /\ wakeDispatches' = 0)]_vars
    /\ [][(InDispatch /\ pcS' # pcS /\ pcS' \notin
              {"verify", "process", "handle_error", "close_request"}) =>
              pcS' = "sf_while"]_vars

\* C16 witness: the loop is back at its test after a request was handled, one
\* dispatch counted for the latest return of select.
C16_Witness ==
    pcS = "sf_while" /\ request = "done" /\ wakeDispatches = 1 /\ serving


\* ------------------------------------------------------------------ C18
\* C18: handle_request() is single-shot: it waits in select without a timeout,
\* begins at most one dispatch, returns when that dispatch has ended (or when
\* select raised), and changes neither the serving flag nor the
\* shutdown-complete latch.
C18_HandleRequestSingleShot ==
    /\ [][UNCHANGED << serving, is_shut_down >>]_vars
    /\ [](wakeDispatches <= 1)
    /\ [][pcS = "hr_select" => selT' = selT]_vars
    /\ [][(pcS = "hr_select" /\ pcS' # pcS) =>
              \/ pcS' = "get_request"
              \/ pcS' = "hr_idle" /\ ~inHandleRequest']_vars
    /\ [][(InDispatch /\ pcS' # pcS /\ pcS' \notin
              {"verify", "process", "handle_error", "close_request"}) =>
              pcS' = "hr_return"]_vars
    /\ [][(pcS = "hr_return" /\ pcS' # pcS) =>
              (pcS' = "hr_idle" /\ ~inHandleRequest'
               /\ hrCount' = hrCount + 1)]_vars

\* C18 witness: one handle_request() call has handled one request and
\* returned, on a server whose loop had been left with serving still true.
C18_Witness ==
    /\ hrCount = 1
    /\ pcS = "hr_idle"
    /\ request = "done"
    /\ wakeDispatches = 1
    /\ serving
    /\ ~is_shut_down


\* ------------------------------------------------------------------ C17
\* The latest write of the flag was a clear() that came after some set().
ClearedAfterSet ==
    /\ Len(flagOps) >= 2
    /\ flagOps[Len(flagOps)] = "clear"
    /\ \E i \in 1..Len(flagOps) : flagOps[i] = "set"

\* C17: wait(timeout) returns the value the flag has when it returns (so never
\* true while the flag is false, and false after a timeout with the flag still
\* false); a set() is not lost: a waiter blocked while the flag is true has
\* been notified, and a waiter without a timeout returns false only if a
\* clear() followed the set().
C17_WaitReturnsFlag ==
    /\ pcW = "w_release" => waitResult = evFlag
    /\ (pcW = "w_waiting" /\ evFlag) => notified
    /\ (pcW \in {"w_reacquire", "w_return"} /\ timeout = "None" /\ ~evFlag) =>
           ClearedAfterSet
    /\ (pcW = "w_release" /\ timeout = "None" /\ ~waitResult) =>
           ClearedAfterSet

\* C17 witness: a waiter without a timeout blocked, a set() woke it, and it
\* returns true.
C17_Witness ==
    /\ pcW = "w_release"
    /\ timeout = "None"
    /\ notified
    /\ waitResult
    /\ flagOps = << "set" >>

====
